---------------------------- MODULE Spec2Model ----------------------------
(***************************************************************************)
(* Model of htknx: the heat pump datapoint (src/htdatapoint.py), the fault *)
(* notification (src/htfaultnotification.py) and the configuration         *)
(* validators (src/config_validation.py).                                  *)
(*                                                                         *)
(* Python values are modelled as sequences of length at most one: None is  *)
(* the empty sequence and a value v is <<v>>.  A KNX payload is None or a  *)
(* pair <<DPT class, raw>>.                                                *)
(***************************************************************************)
EXTENDS Integers, Sequences, FiniteSets, TLC

\* Largest numeric value the heat pump reports in the model (values start at 10).
MaxVal == 13
\* Last instant of the model's clock; one unit of time is ten minutes.
MaxTime == 13
\* Longest time that passes between two operations, in units of time.
MaxStep == 12
\* Most announcements counted within one continuous error period.
MaxEmits == 3
\* Largest hour count written in a duration.
MaxHours == 2
\* Longest run of digits written in a part of a group address.
MaxDigits == 5

KNX_GA_MAX_FREE == 65535

None == <<>>

Some(v) == <<v>>

\* Python truthiness of a flag that is None, False or True.
Truthy(x) == x # None /\ x[1] = TRUE

Abs(n) == IF n < 0 THEN -n ELSE n

-----------------------------------------------------------------------------
(* The datapoint                                                           *)

VARIABLES
    config,           \* the arguments or the configuration record the datapoint was built from
    via,              \* "init" (constructor called directly) or "from_config"
    param_value,      \* the RemoteValue: [cls, group_address, payload]
    writable,
    cyclic_sending,
    send_on_change,
    on_change_of,
    last_sent_value,
    bus,              \* telegrams the last operation put on the KNX bus
    warnings,         \* warnings the last operation logged
    call              \* the last operation: its name, argument, outcome and the state before it

dpvars == <<config, via, param_value, writable, cyclic_sending, send_on_change,
            on_change_of, last_sent_value, bus, warnings, call>>

VARIABLES
    repeat_after,     \* None or a duration
    last_sent_at,     \* None or an instant
    in_error,
    now,              \* the wall clock, datetime.now()
    emitted,          \* messages the last tick handed to Notification.set
    period_emits,     \* announcements since the external flag was last seen false
    tick              \* the last tick: its inputs, outcome and the state before it

fnvars == <<repeat_after, last_sent_at, in_error, now, emitted, period_emits, tick>>

VARIABLES
    v_input,          \* the value handed to a validator
    v_origin,         \* how that value was written: its form, sign and components
    v_func,           \* the validator applied last, "none" before any
    v_result,         \* what that validator returned or raised
    v_prev            \* the result of the application before the last one

vvars == <<v_input, v_origin, v_func, v_result, v_prev>>

vars == <<dpvars, fnvars, vvars>>

BinaryValues == {TRUE, FALSE}

SensorValues == 10..MaxVal

\* Values handed to set() of a numeric datapoint; 256 is one the 1-byte
\* unsigned sensor type cannot encode.
SensorInputs == SensorValues \cup {256}

GroupAddresses == {"1/2/3"}

ValueTypes == {"binary", "pulse"}

OnChangeOfs == {None, Some(0), Some(1), Some(2), Some(-2)}

\* RemoteValueSwitch.to_knx / RemoteValueSensor.to_knx: the encoded payload.
to_knx(cls, value) ==
    IF cls = "RemoteValueSwitch"
    THEN <<"DPTBinary", IF value THEN 1 ELSE 0>>
    ELSE <<"DPTArray", value>>

\* to_knx raises ConversionError for a value outside the range of the type.
to_knx_raises(cls, value) ==
    cls = "RemoteValueSensor" /\ value \notin 0..255

\* RemoteValue.from_knx: the decoded payload.
from_knx(cls, payload) ==
    IF cls = "RemoteValueSwitch" THEN payload[2] = 1 ELSE payload[2]

\* RemoteValue.payload_valid: the payload has the DPT class of the remote value.
payload_valid(cls, payload) ==
    /\ payload # None
    /\ payload[1] = (IF cls = "RemoteValueSwitch" THEN "DPTBinary" ELSE "DPTArray")

\* RemoteValue.value: None while no payload is cached.
Value(pv) ==
    IF pv.payload = None THEN None ELSE Some(from_knx(pv.cls, pv.payload))

\* The fields of self as one record.
Self ==
    [param_value |-> param_value, writable |-> writable,
     cyclic_sending |-> cyclic_sending, send_on_change |-> send_on_change,
     on_change_of |-> on_change_of, last_sent_value |-> last_sent_value]

\* What an operation leaves: the object, the telegrams sent, the warnings
\* logged and whether it raised.
Outcome(self, sent, warned, raised) ==
    [self |-> self, bus |-> sent, warnings |-> warned, raised |-> raised]

HtDataPoint_init(group_address, value_type, w, cs, soc, oco) ==
    [param_value |->
        [cls |-> IF value_type = "binary" THEN "RemoteValueSwitch"
                                           ELSE "RemoteValueSensor",
         group_address |-> group_address,
         payload |-> None],
     writable |-> w,
     cyclic_sending |-> cs,
     send_on_change |-> soc,
     on_change_of |-> oco,
     last_sent_value |-> None]

\* dict.get: the value under the key, None when the key is absent.
Get(cfg, key) == IF key \in DOMAIN cfg THEN cfg[key] ELSE None

from_config(cfg) ==
    HtDataPoint_init(Get(cfg, "group_address")[1], Get(cfg, "value_type")[1],
                     Get(cfg, "writable"), Get(cfg, "cyclic_sending"),
                     Get(cfg, "send_on_chnage"), Get(cfg, "on_change_of"))

\* RemoteValue.set(value, response): encode, cache the payload, send it.
\* send_fails: putting the telegram on the bus raises.
RemoteValue_set(self, value, response, send_fails) ==
    IF to_knx_raises(self.param_value.cls, value)
    THEN Outcome(self, <<>>, 0, TRUE)
    ELSE LET payload == to_knx(self.param_value.cls, value)
             cached  == [self EXCEPT !.param_value.payload = payload]
         IN  IF send_fails
             THEN Outcome(cached, <<>>, 0, TRUE)
             ELSE Outcome(cached,
                          <<[payload |-> payload, response |-> response]>>,
                          0, FALSE)

\* self.param_value.payload = self.param_value.to_knx(value)
CachePayload(self, value) ==
    IF to_knx_raises(self.param_value.cls, value)
    THEN Outcome(self, <<>>, 0, TRUE)
    ELSE Outcome([self EXCEPT !.param_value.payload =
                                 to_knx(self.param_value.cls, value)],
                 <<>>, 0, FALSE)

\* The placeholder that overrides the value read from param_value.
BroadcastStub(cls) == IF cls = "RemoteValueSwitch" THEN TRUE ELSE 123

broadcast_value(self, response, send_fails) ==
    IF response \/ Truthy(self.cyclic_sending)
    THEN LET value == Some(BroadcastStub(self.param_value.cls))
         IN  IF value = None
             THEN Outcome(self, <<>>, 0, FALSE)
             ELSE RemoteValue_set(self, value[1], response, send_fails)
    ELSE Outcome(self, <<>>, 0, FALSE)

process_group_read(self, telegram, send_fails) ==
    broadcast_value(self, TRUE, send_fails)

\* RemoteValue.process: raises CouldNotParseTelegram for a payload of the
\* wrong class, caches the payload of the telegram otherwise.
RemoteValue_process(self, telegram) ==
    IF ~payload_valid(self.param_value.cls, telegram.payload)
    THEN Outcome(self, <<>>, 0, TRUE)
    ELSE Outcome([self EXCEPT !.param_value.payload = telegram.payload],
                 <<>>, 0, FALSE)

\* Faulty variant of process_group_write: an accepted write is echoed on the bus.
process_group_write_echo(self, telegram) ==
    LET processed == RemoteValue_process(self, telegram)
    IN  IF processed.raised
        THEN processed
        ELSE LET value == Value(processed.self.param_value)
             IN  IF ~Truthy(self.writable)
                 THEN Outcome(processed.self, <<>>, 1, FALSE)
                 ELSE RemoteValue_set(processed.self, value[1], FALSE, FALSE)

\* Faulty variant of process_group_write: the writable test is inverted.
process_group_write_inverted(self, telegram) ==
    LET processed == RemoteValue_process(self, telegram)
    IN  IF processed.raised
        THEN processed
        ELSE LET value == Value(processed.self.param_value)
             IN  IF Truthy(self.writable)
                 THEN Outcome(processed.self, <<>>, 1, FALSE)
                 ELSE CachePayload(processed.self, value[1])

process_group_write(self, telegram) ==
    LET processed == RemoteValue_process(self, telegram)
    IN  IF processed.raised
        THEN processed
        ELSE LET value == Value(processed.self.param_value)
             IN  IF ~Truthy(self.writable)
                 THEN Outcome(processed.self, <<>>, 1, FALSE)
                 ELSE CachePayload(processed.self, value[1])

\* Faulty variant of the delta test: the delta is measured from the cached
\* value instead of the last transmitted one.
DeltaFromCached(self, value) ==
    \/ self.on_change_of = None
    \/ self.last_sent_value = None
    \/ Value(self.param_value) = None
    \/ Abs(value - Value(self.param_value)[1]) >= Abs(self.on_change_of[1])

\* The delta test of set() for a numeric value.
DeltaReached(self, value) ==
    \/ self.on_change_of = None
    \/ self.last_sent_value = None
    \/ Abs(value - self.last_sent_value[1]) >= Abs(self.on_change_of[1])

\* Faulty variant of the transmitting branches: the value is recorded as
\* last sent although the transmission raised.
SendAndRecord_despite_failure(self, value, send_fails) ==
    LET sent == RemoteValue_set(self, value, FALSE, send_fails)
    IN  [sent EXCEPT !.self.last_sent_value = Some(value)]

\* The outcome of the transmitting branches of set().
SendAndRecord(self, value, send_fails) ==
    LET sent == RemoteValue_set(self, value, FALSE, send_fails)
    IN  IF sent.raised
        THEN sent
        ELSE [sent EXCEPT !.self.last_sent_value = Some(value)]

\* Faulty variant of the binary branch: the value is recorded as last sent
\* on both branches.
SetSwitch_always_records(self, value, send_fails) ==
    IF Truthy(self.send_on_change)
    THEN SendAndRecord(self, value, send_fails)
    ELSE [CachePayload(self, value) EXCEPT !.self.last_sent_value = Some(value)]

\* The binary branch of set().
SetSwitch(self, value, send_fails) ==
    IF Truthy(self.send_on_change)
    THEN SendAndRecord(self, value, send_fails)
    ELSE CachePayload(self, value)

\* The numeric branch of set().
SetSensor(self, value, send_fails) ==
    IF Truthy(self.send_on_change)
       /\ DeltaReached(self, value)
    THEN SendAndRecord(self, value, send_fails)
    ELSE CachePayload(self, value)

HtDataPoint_set(self, value, send_fails) ==
    IF value = None
    THEN Outcome(self, <<>>, 0, FALSE)
    ELSE IF self.param_value.cls = "RemoteValueSwitch"
            /\ value # Value(self.param_value)
         THEN SetSwitch(self, value[1], send_fails)
         ELSE IF self.param_value.cls = "RemoteValueSensor"
                 /\ value # Value(self.param_value)
              THEN SetSensor(self, value[1], send_fails)
              ELSE Outcome(self, <<>>, 0, FALSE)

resolve_state(self) == Value(self.param_value)

\* The values set() is called with, by class of the remote value.
SetInputs(cls) ==
    {None} \cup
    IF cls = "RemoteValueSwitch"
    THEN {Some(v) : v \in BinaryValues}
    ELSE {Some(v) : v \in SensorInputs}

\* The payloads of inbound group-write telegrams: every value of the type,
\* and one payload of the other DPT class.
WritePayloads(cls) ==
    IF cls = "RemoteValueSwitch"
    THEN {to_knx(cls, v) : v \in BinaryValues} \cup {<<"DPTArray", 10>>}
    ELSE {to_knx(cls, v) : v \in SensorValues} \cup {<<"DPTBinary", 1>>}

ConfigRecords ==
    [group_address : {Some(g) : g \in GroupAddresses},
     value_type : {Some(t) : t \in ValueTypes},
     writable : {Some(b) : b \in BOOLEAN},
     cyclic_sending : {Some(b) : b \in BOOLEAN},
     send_on_change : {Some(b) : b \in BOOLEAN},
     on_change_of : OnChangeOfs]

\* A value handed to a validator: its Python type and, by type, its
\* characters, its number or its items.  Durations are counted in tenths of
\* a second.
PyValue(type, str, num, items) ==
    [type |-> type, str |-> str, num |-> num, items |-> items]

PyNone == PyValue("NoneType", <<>>, 0, {})

PyStr(str) == PyValue("str", str, 0, {})

\* How an input was written: form names its shape, sign and parts its
\* components where it has any.
Origin(form, sign, parts) == [form |-> form, sign |-> sign, parts |-> parts]

\* What a validator leaves: the value it returns, or the error it raises.
Returned(val) == [ok |-> TRUE, val |-> val]

Invalid == [ok |-> FALSE, val |-> PyNone]

\* No validator has run.
IdleValidators ==
    /\ v_input = PyNone
    /\ v_origin = Origin("none", "", <<>>)
    /\ v_func = "none"
    /\ v_result = Invalid
    /\ v_prev = Invalid

NoTick ==
    [op |-> "none", flag |-> FALSE, failed_at |-> "none", propagated |-> FALSE,
     checked_at |-> 0, pre_in_error |-> FALSE, pre_last_sent_at |-> None,
     after_failure |-> FALSE]

NoCall ==
    [op |-> "none", arg |-> None, raised |-> FALSE,
     pre_value |-> None, pre_last_sent_value |-> None, send_failed |-> FALSE]

\* The datapoint after construction, built by the constructor or by from_config.
Construct(cfg, how) ==
    /\ config = cfg
    /\ via = how
    /\ LET self == IF how = "from_config"
                   THEN from_config(cfg)
                   ELSE HtDataPoint_init(cfg.group_address[1], cfg.value_type[1],
                                         cfg.writable, cfg.cyclic_sending,
                                         cfg.send_on_change, cfg.on_change_of)
       IN  /\ param_value = self.param_value
           /\ writable = self.writable
           /\ cyclic_sending = self.cyclic_sending
           /\ send_on_change = self.send_on_change
           /\ on_change_of = self.on_change_of
           /\ last_sent_value = self.last_sent_value
    /\ bus = <<>>
    /\ warnings = 0
    /\ call = NoCall

\* The fault notification as constructed, before any tick.
IdleFaultNotification ==
    /\ repeat_after = None
    /\ last_sent_at = None
    /\ in_error = FALSE
    /\ now = 0
    /\ emitted = <<>>
    /\ period_emits = 0
    /\ tick = NoTick

InitDataPoint ==
    \E cfg \in ConfigRecords, how \in {"init", "from_config"} :
        Construct(cfg, how) /\ IdleFaultNotification /\ IdleValidators

\* The state an operation leaves, with the record of the call.
Apply(op, arg, out) ==
    /\ param_value' = out.self.param_value
    /\ writable' = out.self.writable
    /\ cyclic_sending' = out.self.cyclic_sending
    /\ send_on_change' = out.self.send_on_change
    /\ on_change_of' = out.self.on_change_of
    /\ last_sent_value' = out.self.last_sent_value
    /\ bus' = out.bus
    /\ warnings' = out.warnings
    /\ call' = [op |-> op, arg |-> arg, raised |-> out.raised,
                pre_value |-> Value(param_value),
                pre_last_sent_value |-> last_sent_value,
                \* a transmission has raised after the payload was cached
                send_failed |-> \/ call.send_failed
                                \/ /\ out.raised
                                   /\ out.self.param_value # param_value]
    /\ UNCHANGED <<config, via>>
    /\ UNCHANGED <<fnvars, vvars>>

Set ==
    \E value \in SetInputs(param_value.cls), send_fails \in BOOLEAN :
        Apply("set", value, HtDataPoint_set(Self, value, send_fails))

BroadcastValue ==
    \E response \in BOOLEAN, send_fails \in BOOLEAN :
        Apply("broadcast_value", Some(response),
              broadcast_value(Self, response, send_fails))

GroupRead ==
    \E send_fails \in BOOLEAN :
        LET telegram == [kind |-> "GroupValueRead", payload |-> None]
        IN  Apply("process_group_read", None,
                  process_group_read(Self, telegram, send_fails))

GroupWrite ==
    \E payload \in WritePayloads(param_value.cls) :
        LET telegram == [kind |-> "GroupValueWrite", payload |-> payload]
        IN  Apply("process_group_write", payload,
                  process_group_write(Self, telegram))

NextDataPoint == Set \/ BroadcastValue \/ GroupRead \/ GroupWrite

-----------------------------------------------------------------------------
(* The fault notification                                                  *)

\* One hour, in units of ten minutes.
RepeatAfters == {None, Some(0), Some(1), Some(6)}

\* The points of a tick at which a call can raise.
RaisePoints == {"none", "in_error_async", "get_last_fault_async", "set"}

\* The message of the last fault record.
FaultMessage == "msg"

HtFaultNotification_init(group_address, ra) ==
    [group_address |-> group_address,
     repeat_after |-> ra,
     last_sent_at |-> None,
     in_error |-> FALSE]

HtFaultNotification_from_config(cfg) ==
    HtFaultNotification_init(Get(cfg, "group_address"), Get(cfg, "repeat_after"))

\* What a tick leaves: the object, the messages handed to Notification.set,
\* the call whose exception was caught and logged ("none" when nothing was
\* raised), and whether an exception reached the caller.
Ticked(self, msgs, failed_at) ==
    [self |-> self, emitted |-> msgs, failed_at |-> failed_at, propagated |-> FALSE]

\* Faulty variant of the elapsed-time test: a strict comparison.
RepeatElapsed_strict(t, lsa, ra) == t - lsa[1] > ra[1]

\* datetime.now() - self.last_sent_at >= self.repeat_after
RepeatElapsed(t, lsa, ra) == t - lsa[1] >= ra[1]

\* The subtraction raises TypeError when last_sent_at is None.
RepeatElapsedRaises(self) ==
    self.in_error /\ self.repeat_after # None /\ self.last_sent_at = None

\* Faulty variant of the announcement condition: a missing repeat interval
\* counts as elapsed.
ShouldAnnounce_unthrottled(self, t) ==
    \/ ~self.in_error
    \/ self.repeat_after = None
    \/ RepeatElapsed(t, self.last_sent_at, self.repeat_after)

\* Faulty variant of the announcement condition: the repeat interval also
\* throttles the first announcement of a new error period.
ShouldAnnounce_across_periods(self, t) ==
    \/ self.last_sent_at = None
    \/ /\ self.repeat_after # None
       /\ RepeatElapsed(t, self.last_sent_at, self.repeat_after)

\* The condition under which a tick that sees the flag true announces.
ShouldAnnounce(self, t) ==
    \/ ~self.in_error
    \/ /\ self.repeat_after # None
       /\ RepeatElapsed(t, self.last_sent_at, self.repeat_after)

\* Faulty variant of the announcement: in_error is set before the calls that
\* can raise.
Announce_eager(self, t2, exc) ==
    IF exc \in {"get_last_fault_async", "set"}
    THEN Ticked([self EXCEPT !.in_error = TRUE], <<>>, exc)
    ELSE Ticked([self EXCEPT !.in_error = TRUE, !.last_sent_at = Some(t2)],
                <<FaultMessage>>, "none")

\* Fetch the last fault, emit its message, record the announcement at t2.
Announce(self, t2, exc) ==
    IF exc \in {"get_last_fault_async", "set"}
    THEN Ticked(self, <<>>, exc)
    ELSE Ticked([self EXCEPT !.in_error = TRUE, !.last_sent_at = Some(t2)],
                <<FaultMessage>>, "none")

\* Faulty variant of the clearing branch: in_error is left as it is.
Clear_keeps(self) == Ticked(self, <<>>, "none")

\* Faulty variant of the clearing branch: last_sent_at is forgotten as well.
Clear_forgets(self) ==
    Ticked([self EXCEPT !.in_error = FALSE, !.last_sent_at = None], <<>>, "none")

\* The branch of a tick on which the flag is false.
Clear(self) == Ticked([self EXCEPT !.in_error = FALSE], <<>>, "none")

\* do(): flag is the answer of in_error_async, exc the call that raises (if
\* reached), t the clock at the elapsed-time test and t2 at the assignment.
HtFaultNotification_do(self, flag, exc, t, t2) ==
    IF exc = "in_error_async"
    THEN Ticked(self, <<>>, exc)
    ELSE IF flag
         THEN IF RepeatElapsedRaises(self)
              THEN Ticked(self, <<>>, "elapsed_test")
              ELSE IF ShouldAnnounce(self, t)
                   THEN Announce(self, t2, exc)
                   ELSE Ticked(self, <<>>, "none")
         ELSE Clear(self)

SelfFN ==
    [group_address |-> Some("1/2/3"), repeat_after |-> repeat_after,
     last_sent_at |-> last_sent_at, in_error |-> in_error]

\* The datapoint as constructed, before any operation.
IdleDataPoint ==
    Construct([group_address |-> Some("1/2/3"), value_type |-> Some("binary"),
               writable |-> Some(FALSE), cyclic_sending |-> Some(FALSE),
               send_on_change |-> Some(FALSE), on_change_of |-> None], "init")

InitFaultNotification ==
    \E cfg \in [group_address : {Some(g) : g \in GroupAddresses},
                repeat_after : RepeatAfters] :
        LET self == HtFaultNotification_from_config(cfg)
        IN  /\ IdleDataPoint
            /\ IdleValidators
            /\ repeat_after = self.repeat_after
            /\ last_sent_at = self.last_sent_at
            /\ in_error = self.in_error
            /\ now = 0
            /\ emitted = <<>>
            /\ period_emits = 0
            /\ tick = NoTick

\* The time that passes between two operations.
TimeSteps == {0, 1, MaxStep}

\* A tick of the polling loop, after some time has passed.
Do ==
    \E flag \in BOOLEAN, exc \in RaisePoints, dt \in TimeSteps, d \in 0..1 :
        LET t  == now + dt
            t2 == t + d
            out == HtFaultNotification_do(SelfFN, flag, exc, t, t2)
            announced == out.emitted # <<>>
        IN  /\ t2 <= MaxTime
            /\ announced => period_emits < MaxEmits
            /\ repeat_after' = out.self.repeat_after
            /\ last_sent_at' = out.self.last_sent_at
            /\ in_error' = out.self.in_error
            /\ now' = IF announced THEN t2 ELSE t
            /\ emitted' = out.emitted
            /\ period_emits' = IF announced THEN period_emits + 1
                               ELSE IF out.failed_at = "none" /\ ~flag THEN 0
                               ELSE period_emits
            /\ tick' = [op |-> "do", flag |-> flag, failed_at |-> out.failed_at,
                        propagated |-> out.propagated, checked_at |-> t,
                        pre_in_error |-> in_error,
                        pre_last_sent_at |-> last_sent_at,
                        after_failure |->
                            tick.failed_at \in {"get_last_fault_async", "set"}]
            /\ UNCHANGED <<dpvars, vvars>>

NextFaultNotification == Do

-----------------------------------------------------------------------------
(* The configuration validators                                            *)
(*                                                                         *)
(* A string is a sequence of one-character strings.  A duration            *)
(* (timedelta) is a number of tenths of a second; the strings the model    *)
(* parses carry at most one fractional digit.                              *)

DigitChars == <<"0", "1", "2", "3", "4", "5", "6", "7", "8", "9">>

IsDigit(c) == \E i \in 1..10 : DigitChars[i] = c

DigitOf(c) == (CHOOSE i \in 1..10 : DigitChars[i] = c) - 1

\* str.isdigit: not empty and digits only.
isdigit(str) == str # <<>> /\ \A i \in 1..Len(str) : IsDigit(str[i])

\* The number a string of digits writes.
RECURSIVE DigitsValue(_)
DigitsValue(str) ==
    IF str = <<>> THEN 0
    ELSE DigitsValue(SubSeq(str, 1, Len(str) - 1)) * 10 + DigitOf(str[Len(str)])

\* str(n) of an integer.
RECURSIVE NatStr(_)
NatStr(n) ==
    IF n < 10 THEN <<DigitChars[n + 1]>>
    ELSE NatStr(n \div 10) \o <<DigitChars[(n % 10) + 1]>>

IntStr(n) == IF n < 0 THEN <<"-">> \o NatStr(-n) ELSE NatStr(n)

Whitespace == {" ", "\t", "\n"}

\* str.strip
RECURSIVE strip(_)
strip(str) ==
    IF str # <<>> /\ str[1] \in Whitespace THEN strip(Tail(str))
    ELSE IF str # <<>> /\ str[Len(str)] \in Whitespace
         THEN strip(SubSeq(str, 1, Len(str) - 1))
         ELSE str

\* str.startswith for a one-character prefix.
startswith(str, c) == str # <<>> /\ str[1] = c

\* str.split(sep) for a one-character separator.
RECURSIVE split(_, _)
split(str, sep) ==
    IF \E i \in 1..Len(str) : str[i] = sep
    THEN LET i == CHOOSE k \in 1..Len(str) :
                      str[k] = sep /\ \A j \in 1..(k - 1) : str[j] # sep
         IN  <<SubSeq(str, 1, i - 1)>> \o split(SubSeq(str, i + 1, Len(str)), sep)
    ELSE <<str>>

\* A string without its sign, and the sign as a factor.
Unsigned(str) ==
    IF startswith(str, "-") \/ startswith(str, "+") THEN Tail(str) ELSE str

SignOf(str) == IF startswith(str, "-") THEN -1 ELSE 1

\* int(str): None stands for ValueError.
py_int(str) ==
    LET body == Unsigned(strip(str))
    IN  IF isdigit(body)
        THEN Some(SignOf(strip(str)) * DigitsValue(body))
        ELSE None

\* float(str), in tenths: None stands for ValueError.  Digits, at most one
\* point, at least one digit.
py_float(str) ==
    LET body == Unsigned(strip(str))
        parts == split(body, ".")
        whole == parts[1]
        frac == IF Len(parts) = 2 THEN parts[2] ELSE <<>>
        digits == whole \o frac
    IN  IF Len(parts) <= 2 /\ isdigit(digits)
        THEN Some(SignOf(strip(str)) *
                  (DigitsValue(whole) * 10 + (IF frac = <<>> THEN 0 ELSE DigitOf(frac[1]))))
        ELSE None

\* timedelta(hours=, minutes=, seconds=), seconds given in tenths.
timedelta(hours, minutes, tenths) ==
    PyValue("timedelta", <<>>, hours * 36000 + minutes * 600 + tenths, {})

\* Faulty variant of the signed offset: the sign negates the hours only.
SignedOffset_hours_only(hour, minute, second, negative_offset) ==
    IF negative_offset
    THEN timedelta(-hour, minute, second)
    ELSE timedelta(hour, minute, second)

\* The offset of time_period_str, negated as a whole for a negative sign.
SignedOffset(hour, minute, second, negative_offset) ==
    LET offset == timedelta(hour, minute, second)
    IN  IF negative_offset THEN [offset EXCEPT !.num = -1 * offset.num] ELSE offset

time_period_str(value) ==
    IF value.type \in {"int", "bool"} THEN Invalid
    ELSE IF value.type # "str" THEN Invalid
    ELSE LET negative_offset == startswith(value.str, "-")
             rest == Unsigned(value.str)
             parsed == split(rest, ":")
         IN  IF Len(parsed) \notin {2, 3} THEN Invalid
             ELSE LET hour == py_int(parsed[1])
                      minute == py_int(parsed[2])
                      second == IF Len(parsed) = 3 THEN py_float(parsed[3]) ELSE Some(0)
                  IN  IF hour = None \/ minute = None \/ second = None
                      THEN Invalid
                      ELSE Returned(SignedOffset(hour[1], minute[1], second[1],
                                                 negative_offset))

\* float(value), in tenths: None stands for ValueError or TypeError.
to_float(value) ==
    IF value.type = "str" THEN py_float(value.str)
    ELSE IF value.type \in {"int", "bool"} THEN Some(value.num * 10)
    ELSE IF value.type = "float" THEN Some(value.num)
    ELSE None

time_period_seconds(value) ==
    LET seconds == to_float(value)
    IN  IF seconds = None THEN Invalid ELSE Returned(timedelta(0, 0, seconds[1]))

\* The type timedelta used as a validator: an instance passes unchanged.
is_timedelta(value) ==
    IF value.type = "timedelta" THEN Returned(value) ELSE Invalid

\* The keys of the duration dict and their length in tenths of a second;
\* milliseconds are counted by the hundred.
PeriodKeys == {"days", "hours", "minutes", "seconds", "milliseconds"}

RECURSIVE DictTenths(_)
DictTenths(items) ==
    IF items = {} THEN 0
    ELSE LET item == CHOOSE i \in items : TRUE
             key == item[1]
             tenths == IF key = "days" THEN item[2] * 864000
                       ELSE IF key = "hours" THEN item[2] * 36000
                       ELSE IF key = "minutes" THEN item[2] * 600
                       ELSE IF key = "seconds" THEN item[2] * 10
                       ELSE item[2] \div 100
         IN  tenths + DictTenths(items \ {item})

has_at_least_one_key(value, keys) ==
    value.type = "dict" /\ \E item \in value.items : item[1] \in keys

time_period_dict(value) ==
    IF value.type # "dict" THEN Invalid
    ELSE IF \E item \in value.items : item[1] \notin PeriodKeys THEN Invalid
    ELSE IF ~has_at_least_one_key(value, PeriodKeys) THEN Invalid
    ELSE Returned(timedelta(0, 0, DictTenths(value.items)))

\* vol.Any: the result of the first validator that accepts the value.
time_period(value) ==
    IF time_period_str(value).ok THEN time_period_str(value)
    ELSE IF time_period_seconds(value).ok THEN time_period_seconds(value)
    ELSE IF is_timedelta(value).ok THEN is_timedelta(value)
    ELSE time_period_dict(value)

\* Faulty variant of positive_timedelta: a zero duration is rejected too.
positive_timedelta_strict(value) ==
    IF value.num <= 0 THEN Invalid ELSE Returned(value)

positive_timedelta(value) ==
    IF value.num < 0 THEN Invalid ELSE Returned(value)

\* vol.All: positive_timedelta applied to what time_period returns.
time_interval(value) ==
    LET period == time_period(value)
    IN  IF period.ok THEN positive_timedelta(period.val) ELSE Invalid

UpperChars ==
    <<"A", "B", "C", "D", "E", "F", "G", "H", "I", "J", "K", "L", "M", "N", "O", "P", "Q", "R", "S", "T", "U", "V", "W", "X", "Y", "Z">>

LowerChars ==
    <<"a", "b", "c", "d", "e", "f", "g", "h", "i", "j", "k", "l", "m", "n", "o", "p", "q", "r", "s", "t", "u", "v", "w", "x", "y", "z">>

\* str.lower
lower(str) ==
    [i \in 1..Len(str) |->
        IF \E k \in 1..26 : UpperChars[k] = str[i]
        THEN LowerChars[CHOOSE k \in 1..26 : UpperChars[k] = str[i]]
        ELSE str[i]]

PyBool(b) == PyValue("bool", <<>>, IF b THEN 1 ELSE 0, {})

TrueTokens == {<<"1">>, <<"t", "r", "u", "e">>, <<"y", "e", "s">>, <<"o", "n">>, <<"e", "n", "a", "b", "l", "e">>}

FalseTokens == {<<"0">>, <<"f", "a", "l", "s", "e">>, <<"n", "o">>, <<"o", "f", "f">>, <<"d", "i", "s", "a", "b", "l", "e">>}

\* Faulty variant of the normalization: the case is kept.
Normalized_case_kept(str) == strip(str)

\* value.lower().strip()
Normalized(str) == strip(lower(str))

boolean(value) ==
    IF value.type = "bool" THEN Returned(value)
    ELSE IF value.type = "str"
         THEN IF Normalized(value.str) \in TrueTokens THEN Returned(PyBool(TRUE))
              ELSE IF Normalized(value.str) \in FalseTokens THEN Returned(PyBool(FALSE))
              ELSE Invalid
    ELSE IF value.type \in {"int", "float"} THEN Returned(PyBool(value.num # 0))
    ELSE Invalid

\* str(value) of a string, an int and None.
py_str(value) ==
    IF value.type = "str" THEN value.str
    ELSE IF value.type = "int" THEN IntStr(value.num)
    ELSE <<"N", "o", "n", "e">>

\* The positions a match of \d{lo,hi} begun at one of the positions from can
\* end at (a position is the index of the next character to read).
DigitRun(str, from, lo, hi) ==
    {j \in 1..(Len(str) + 1) :
        \E p \in from : /\ j - p \in lo..hi
                       /\ \A k \in p..(j - 1) : IsDigit(str[k])}

\* The positions after the character c read at one of the positions from.
Literal(str, from, c) ==
    {p + 1 : p \in {q \in from : q <= Len(str) /\ str[q] = c}}

\* The positions at which $ matches: the end, and just before a final newline.
EndOfString(str) ==
    {Len(str) + 1} \cup (IF str # <<>> /\ str[Len(str)] = "\n" THEN {Len(str)} ELSE {})

\* KNX_GA_REGEX.match: ^(\d{1,2})(/(\d{1,2}))?/(\d{1,4})$
KNX_GA_REGEX_match(str) ==
    LET main == DigitRun(str, {1}, 1, 2)
        middle == main \cup DigitRun(str, Literal(str, main, "/"), 1, 2)
        sub == DigitRun(str, Literal(str, middle, "/"), 1, 4)
    IN  sub \cap EndOfString(str) # {}

ensure_group_address(value) ==
    LET str == py_str(value)
    IN  IF isdigit(str) /\ 0 <= DigitsValue(str) /\ DigitsValue(str) <= KNX_GA_MAX_FREE
        THEN Returned(PyStr(str))
        ELSE IF ~KNX_GA_REGEX_match(str)
             THEN Invalid
             ELSE Returned(PyStr(str))

\* The inputs of the duration validators, each with the way it was written.
Written(input, origin) == [input |-> input, origin |-> origin]

Pad2(n) == IF n < 10 THEN <<"0">> \o NatStr(n) ELSE NatStr(n)

\* SS or SS.f for a number of tenths of a second.
SecondsStr(tenths) ==
    Pad2(tenths \div 10) \o
    (IF tenths % 10 = 0 THEN <<>> ELSE <<".", DigitChars[(tenths % 10) + 1]>>)

Signs == {"", "+", "-"}

SignStr(sign) == IF sign = "" THEN <<>> ELSE <<sign>>

Hours == 0..MaxHours

Minutes == {0, 30, 90}

Tenths == {0, 5, 300, 305}

\* "[+-]HH:MM" and "[+-]HH:MM:SS[.f]"
DurationStrings ==
    {Written(PyStr(SignStr(sg) \o NatStr(h) \o <<":">> \o Pad2(m)),
             Origin("hm", sg, <<h, m>>)) :
        sg \in Signs, h \in Hours, m \in Minutes}
    \cup
    {Written(PyStr(SignStr(x[1]) \o NatStr(x[2]) \o <<":">> \o Pad2(x[3])
                   \o <<":">> \o SecondsStr(x[4])),
             Origin("hms", x[1], <<x[2], x[3], x[4]>>)) :
        x \in Signs \X Hours \X Minutes \X Tenths}

\* Strings that do not split into two or three numeric parts.
MalformedStrings ==
    {Written(PyStr(str), Origin("malformed", "", <<>>)) : str \in
    {<<>>,
     <<"1", ":", "2", ":", "3", ":", "4">>,
     <<"x", ":", "3", "0">>,
     <<"1", ":", "x">>,
     <<"1", ":", "3", "0", ":", "x">>,
     <<":", "3", "0">>,
     <<"1", ":">>,
     <<"1", ".", "5", ":", "3", "0">>,
     <<"1", ":", "3", "0", ":">>,
     <<"a", "b", "c">>,
     <<"1", ":", "3", "0", ":", "1", ".", "2", ".", "3">>,
     <<"1", " ", "3", "0">>}}

\* Strings whose parts carry signs of their own: "1:-30" and "--1:30".
SignedPartStrings ==
    {Written(PyStr(<<"1", ":", "-", "3", "0">>), Origin("signed parts", "", <<>>)),
     Written(PyStr(<<"-", "-", "1", ":", "3", "0">>), Origin("signed parts", "", <<>>))}

\* Plain numbers of seconds: as a string, an int, a float and a bool.
SecondsInputs ==
    {Written(PyStr(SignStr(sg) \o NatStr(n)), Origin("seconds", sg, <<0, 0, n * 10>>)) :
        sg \in {"", "-"}, n \in {0, 5, 90}}
    \cup
    {Written(PyValue("int", <<>>, n, {}),
             Origin("seconds", IF n < 0 THEN "-" ELSE "", <<0, 0, Abs(n) * 10>>)) :
        n \in {-5, 0, 90}}
    \cup
    {Written(PyValue("float", <<>>, t, {}),
             Origin("seconds", IF t < 0 THEN "-" ELSE "", <<0, 0, Abs(t)>>)) :
        t \in {-5, 5}}
    \cup
    {Written(PyValue("bool", <<>>, 1, {}), Origin("seconds", "", <<0, 0, 10>>))}

\* Durations already normalized.
TimedeltaInputs ==
    {Written(PyValue("timedelta", <<>>, t, {}),
             Origin("timedelta", IF t < 0 THEN "-" ELSE "", <<0, 0, Abs(t)>>)) :
        t \in {-600, -1, 0, 1, 600}}

SignFactor(sign) == IF sign = "-" THEN -1 ELSE 1

\* Duration dicts: all of hours, minutes and milliseconds, or minutes alone.
DictInputs ==
    {Written(PyValue("dict", <<>>, 0,
                     {<<"hours", SignFactor(x[1]) * x[2]>>,
                      <<"minutes", SignFactor(x[1]) * x[3]>>,
                      <<"milliseconds", SignFactor(x[1]) * x[4] * 100>>}),
             Origin("dict", x[1], <<x[2], x[3], x[4]>>)) :
        x \in {"", "-"} \X Hours \X Minutes \X Tenths}
    \cup
    {Written(PyValue("dict", <<>>, 0, {<<"minutes", SignFactor(sg) * 5>>}),
             Origin("dict", sg, <<0, 5>>)) : sg \in {"", "-"}}

\* The empty dict, a dict with an unknown key, None.
MalformedValues ==
    {Written(PyValue("dict", <<>>, 0, {}), Origin("malformed", "", <<>>)),
     Written(PyValue("dict", <<>>, 0, {<<"weeks", 1>>, <<"minutes", 5>>}),
             Origin("malformed", "", <<>>)),
     Written(PyNone, Origin("malformed", "", <<>>))}

TimeInputs ==
    DurationStrings \cup MalformedStrings \cup SignedPartStrings
    \cup SecondsInputs \cup TimedeltaInputs \cup DictInputs \cup MalformedValues

\* A validator is handed a value that no validator has seen.
Handed(inputs) ==
    \E i \in inputs :
        /\ v_input = i.input
        /\ v_origin = i.origin
        /\ v_func = "none"
        /\ v_result = Invalid
        /\ v_prev = Invalid

\* The validator func runs on the input and leaves result.
Validate(func, result) ==
    /\ v_func = "none"
    /\ v_func' = func
    /\ v_result' = result
    /\ v_prev' = v_result
    /\ UNCHANGED <<v_input, v_origin, dpvars, fnvars>>

InitTimePeriod == Handed(TimeInputs) /\ IdleDataPoint /\ IdleFaultNotification

TimePeriodStr == Validate("time_period_str", time_period_str(v_input))

TimeInterval == Validate("time_interval", time_interval(v_input))

NextTimePeriod == TimePeriodStr \/ TimeInterval

\* The spellings of a token: lower case, upper case, first letter upper.
upper(str) ==
    [i \in 1..Len(str) |->
        IF \E k \in 1..26 : LowerChars[k] = str[i]
        THEN UpperChars[CHOOSE k \in 1..26 : LowerChars[k] = str[i]]
        ELSE str[i]]

Spellings(token) ==
    {token, upper(token), <<upper(token)[1]>> \o Tail(token)}

\* A string as it is, and with whitespace before, after and around it.
Paddings(str) ==
    {<<" ">> \o str, str \o <<" ">>, <<"\t">> \o str \o <<"\n">>}

Truth(token) == IF token \in TrueTokens THEN 1 ELSE 0

\* The inputs of boolean: tokens in every spelling, the same with whitespace
\* around them, bools, numbers, and values that are none of these.
BooleanInputs ==
    {Written(PyStr(x[2]), Origin("token", "", <<Truth(x[1])>>)) :
        x \in {y \in (TrueTokens \cup FalseTokens) \X
                      UNION {Spellings(t) : t \in TrueTokens \cup FalseTokens} :
                  y[2] \in Spellings(y[1])}}
    \cup
    {Written(PyStr(x[2]), Origin("padded token", "", <<Truth(x[1])>>)) :
        x \in {y \in (TrueTokens \cup FalseTokens) \X
                      UNION {Paddings(sp) : sp \in
                                UNION {Spellings(t) : t \in TrueTokens \cup FalseTokens}} :
                  \E sp \in Spellings(y[1]) : y[2] \in Paddings(sp)}}
    \cup
    {Written(PyBool(b), Origin("bool", "", <<IF b THEN 1 ELSE 0>>)) : b \in BOOLEAN}
    \cup
    {Written(PyValue("int", <<>>, n, {}), Origin("number", "", <<IF n = 0 THEN 0 ELSE 1>>)) :
        n \in {-1, 0, 1, 2}}
    \cup
    {Written(PyValue("float", <<>>, t, {}), Origin("number", "", <<IF t = 0 THEN 0 ELSE 1>>)) :
        t \in {0, 5}}
    \cup
    {Written(PyStr(str), Origin("other", "", <<>>)) : str \in
    {<<>>,
     <<"m", "a", "y", "b", "e">>,
     <<"2">>,
     <<"t", "r", "u">>,
     <<"y", "e", "s", "s">>,
     <<"o", "n", " ", "o", "f", "f">>,
     <<"t", " ", "r", "u", "e">>,
     <<"-", "1">>}}
    \cup
    {Written(PyNone, Origin("other", "", <<>>)),
     Written(PyValue("dict", <<>>, 0, {}), Origin("other", "", <<>>))}

InitBoolean == Handed(BooleanInputs) /\ IdleDataPoint /\ IdleFaultNotification

Boolean == Validate("boolean", boolean(v_input))

\* boolean applied to what boolean returned.
BooleanAgain ==
    /\ v_func = "boolean"
    /\ v_result.ok
    /\ v_func' = "boolean(boolean)"
    /\ v_result' = boolean(v_result.val)
    /\ v_prev' = v_result
    /\ UNCHANGED <<v_input, v_origin, dpvars, fnvars>>

NextBoolean == Boolean \/ BooleanAgain

\* The first n of the digits 1 to 9.
Run(n) == SubSeq(Tail(DigitChars), 1, n)

NewlineStr(nl) == IF nl = 1 THEN <<"\n">> ELSE <<>>

\* The inputs of ensure_group_address.  Structured: runs of main, middle and
\* sub digits (no middle part when its run is empty), with or without a final
\* newline.  Free-form: a number as a string or an int.
GroupAddressInputs ==
    {Written(PyStr(Run(x[1]) \o (IF x[2] = 0 THEN <<>> ELSE <<"/">> \o Run(x[2]))
                   \o <<"/">> \o Run(x[3]) \o NewlineStr(x[4])),
             Origin("structured", "", <<x[1], x[2], x[3], x[4]>>)) :
        x \in (1..3) \X (0..3) \X (0..MaxDigits) \X (0..1)}
    \cup
    {Written(PyStr(NatStr(x[1]) \o NewlineStr(x[2])), Origin("free", "", <<x[1], x[2]>>)) :
        x \in {0, 100, 65535, 65536, 70000} \X (0..1)}
    \cup
    {Written(PyStr(<<"0">> \o NatStr(n)), Origin("free", "", <<n, 0>>)) : n \in {100, 70000}}
    \cup
    {Written(PyValue("int", <<>>, n, {}), Origin("free", "", <<n, 0>>)) : n \in {100, 70000}}
    \cup
    {Written(PyStr(str), Origin("other", "", <<>>)) : str \in
    {<<>>,
     <<"a", "/", "b", "/", "c">>,
     <<"1", "/", "/", "3">>,
     <<"/", "1", "/", "2">>,
     <<"1", "/", "2", "/", "3", "/", "4">>,
     <<"1", ".", "1", ".", "1">>,
     <<" ", "1", "/", "2", "/", "3">>,
     <<"1", "/", "2", "/", "3", " ">>,
     <<"1", "/", "a">>,
     <<"-", "1">>,
     <<"1", "/", "2", "/", "3", "\n", "\n">>,
     <<"\n", "1", "/", "2", "/", "3">>}}
    \cup
    {Written(PyNone, Origin("other", "", <<>>))}

InitGroupAddress == Handed(GroupAddressInputs) /\ IdleDataPoint /\ IdleFaultNotification

EnsureGroupAddress == Validate("ensure_group_address", ensure_group_address(v_input))

NextGroupAddress == EnsureGroupAddress

-----------------------------------------------------------------------------
(* Specifications                                                          *)

\* The datapoint alone; the fault notification stays as constructed.
SpecDataPoint == InitDataPoint /\ [][NextDataPoint]_vars

\* The fault notification alone; the datapoint stays as constructed.
SpecFaultNotification == InitFaultNotification /\ [][NextFaultNotification]_vars

\* The datapoint under set() calls alone.
SpecSetOnly == InitDataPoint /\ [][Set]_vars

\* The duration validators, each on every input.
SpecTimePeriod == InitTimePeriod /\ [][NextTimePeriod]_vars

\* boolean, on every input and on its own result.
SpecBoolean == InitBoolean /\ [][NextBoolean]_vars

\* ensure_group_address, on every input.
SpecGroupAddress == InitGroupAddress /\ [][NextGroupAddress]_vars

-----------------------------------------------------------------------------
(* Properties of the datapoint                                             *)

\* The value a telegram on the bus carries.
Carried(telegram) == from_knx(param_value.cls, telegram.payload)

\* The last operation was a set() of a non-null value different from the
\* cached one, and it returned normally.
ChangedSet ==
    /\ call.op = "set"
    /\ ~call.raised
    /\ call.arg # None
    /\ call.arg # call.pre_value

\* C1: on a numeric datapoint with send-on-change, a threshold T and a last
\* sent value L, a set(v) of a changed value that returns normally transmits
\* v if and only if |v - L| >= |T|; when it transmits, last_sent_value
\* becomes v; when it does not, last_sent_value stays L and only the cached
\* value becomes v.
C1_DeltaFromLastSent ==
    ( /\ ChangedSet
      /\ param_value.cls = "RemoteValueSensor"
      /\ Truthy(send_on_change)
      /\ on_change_of # None
      /\ call.pre_last_sent_value # None )
    => LET v == call.arg[1]
           L == call.pre_last_sent_value[1]
           T == on_change_of[1]
       IN  /\ Value(param_value) = Some(v)
           /\ IF Abs(v - L) >= Abs(T)
              THEN /\ Len(bus) = 1
                   /\ Carried(bus[1]) = v
                   /\ last_sent_value = Some(v)
              ELSE /\ bus = <<>>
                   /\ last_sent_value = Some(L)

\* C1 witness: with T = 2 and L = 10, after set(11) was cached without being
\* sent, set(12) transmits 12 and records it.
C1_Witness ==
    /\ ChangedSet
    /\ param_value.cls = "RemoteValueSensor"
    /\ Truthy(send_on_change)
    /\ on_change_of = Some(2)
    /\ call.pre_last_sent_value = Some(10)
    /\ call.pre_value = Some(11)
    /\ call.arg = Some(12)
    /\ Len(bus) = 1
    /\ last_sent_value = Some(12)

\* C4: a group-write to a non-writable datapoint leaves last_sent_value as
\* it was, transmits nothing, and logs a warning whenever the telegram
\* carries a value of the datapoint's type.
C4_NonWritableWrite ==
    (call.op = "process_group_write" /\ ~Truthy(writable))
    => /\ last_sent_value = call.pre_last_sent_value
       /\ bus = <<>>
       /\ ~call.raised => warnings = 1

\* C4 witness: a non-writable datapoint that has sent a value before
\* receives a write of another value.
C4_Witness ==
    /\ call.op = "process_group_write"
    /\ ~Truthy(writable)
    /\ ~call.raised
    /\ warnings = 1
    /\ call.pre_last_sent_value # None
    /\ call.arg # None
    /\ Some(from_knx(param_value.cls, call.arg)) # call.pre_value

\* The last operation was a broadcast, forced or not.
Broadcast == call.op \in {"broadcast_value", "process_group_read"}

Forced == call.op = "process_group_read" \/ call.arg = Some(TRUE)

\* C7: broadcast_value(force) transmits exactly when (force or cyclic
\* sending) and the cached value is set, and what it transmits is the cached
\* value; a group-read forces it and is answered with the response flag.
C7_BroadcastsCachedValue ==
    (Broadcast /\ ~call.raised)
    => /\ (bus # <<>>) <=> ((Forced \/ Truthy(cyclic_sending)) /\ call.pre_value # None)
       /\ bus # <<>> => /\ Some(Carried(bus[1])) = call.pre_value
                        /\ bus[1].response = Forced

\* C8: after a group-write to a non-writable datapoint the cached value is
\* the one before the telegram.
C8_NonWritableWriteDiscarded ==
    (call.op = "process_group_write" /\ ~Truthy(writable))
    => Value(param_value) = call.pre_value

\* C9: on a binary datapoint, set(v) of a changed value that returns normally
\* transmits v and records it as last sent when send-on-change is enabled,
\* and only caches v otherwise; set(None) and set of the cached value
\* transmit nothing and change neither the cached nor the last sent value.
C9_BinarySet ==
    (call.op = "set" /\ param_value.cls = "RemoteValueSwitch")
    => /\ (call.arg = None \/ call.arg = call.pre_value)
            => /\ bus = <<>>
               /\ Value(param_value) = call.pre_value
               /\ last_sent_value = call.pre_last_sent_value
       /\ ChangedSet
            => /\ Value(param_value) = call.arg
               /\ IF Truthy(send_on_change)
                  THEN /\ Len(bus) = 1
                       /\ Some(Carried(bus[1])) = call.arg
                       /\ last_sent_value = call.arg
                  ELSE /\ bus = <<>>
                       /\ last_sent_value = call.pre_last_sent_value

\* C9 witness: a binary datapoint with send-on-change caching FALSE is set to
\* TRUE and transmits it.
C9_Witness ==
    /\ ChangedSet
    /\ param_value.cls = "RemoteValueSwitch"
    /\ Truthy(send_on_change)
    /\ call.pre_value = Some(FALSE)
    /\ call.arg = Some(TRUE)
    /\ Len(bus) = 1
    /\ last_sent_value = Some(TRUE)

\* C10: a datapoint built by from_config carries each configured flag in the
\* corresponding field, and with send_on_change configured true a set() of a
\* changed value that meets the threshold transmits.
C10_FromConfigCarriesFlags ==
    via = "from_config"
    => /\ writable = config.writable
       /\ cyclic_sending = config.cyclic_sending
       /\ Truthy(send_on_change) = Truthy(config.send_on_change)
       /\ on_change_of = config.on_change_of
       /\ ( /\ ChangedSet
            /\ config.send_on_change = Some(TRUE)
            /\ \/ param_value.cls = "RemoteValueSwitch"
               \/ config.on_change_of = None
               \/ call.pre_last_sent_value = None )
          => bus # <<>>

\* C11: an operation changes last_sent_value only if it transmitted a value,
\* and then last_sent_value is the value transmitted; an operation that
\* transmits nothing, a set() whose transmission raised included, leaves
\* last_sent_value as it was.
C11_LastSentOnlyWhenTransmitted ==
    call.op # "none"
    => /\ last_sent_value # call.pre_last_sent_value
            => /\ Len(bus) = 1
               /\ last_sent_value = Some(Carried(bus[1]))
       /\ bus = <<>> => last_sent_value = call.pre_last_sent_value

\* C11 witness: the transmission of a set() raised after the new value was
\* cached, and last_sent_value kept its earlier value.
C11_Witness ==
    /\ call.op = "set"
    /\ call.raised
    /\ Value(param_value) = call.arg
    /\ Value(param_value) # call.pre_value
    /\ bus = <<>>
    /\ call.pre_last_sent_value # None
    /\ last_sent_value = call.pre_last_sent_value

\* C13: a group-write to a writable datapoint caches the written value,
\* transmits nothing and leaves last_sent_value as it was.
C13_WritableWriteCached ==
    (call.op = "process_group_write" /\ Truthy(writable) /\ ~call.raised)
    => /\ Value(param_value) = Some(from_knx(param_value.cls, call.arg))
       /\ bus = <<>>
       /\ last_sent_value = call.pre_last_sent_value

\* C13 witness: a writable datapoint that has sent a value receives a write
\* of another value.
C13_Witness ==
    /\ call.op = "process_group_write"
    /\ Truthy(writable)
    /\ ~call.raised
    /\ call.pre_last_sent_value # None
    /\ Value(param_value) # call.pre_value
    /\ Value(param_value) # last_sent_value
    /\ bus = <<>>

\* The datapoint is numeric, sends on change and has a threshold.
NumericWithThreshold ==
    /\ param_value.cls = "RemoteValueSensor"
    /\ Truthy(send_on_change)
    /\ on_change_of # None

-----------------------------------------------------------------------------
(* Properties of the fault notification                                    *)

\* The last tick saw the flag true while in error, and nothing was raised.
TickInError ==
    /\ tick.op = "do"
    /\ tick.failed_at = "none"
    /\ tick.flag
    /\ tick.pre_in_error
    /\ tick.pre_last_sent_at # None

\* C2: with a repeat interval R, a tick that sees the flag true while in
\* error and raises nothing re-emits if and only if the time since
\* last_sent_at is at least R; every emitting tick sets in_error and sets
\* last_sent_at to the current time.
C2_RepeatAfterElapsed ==
    /\ (TickInError /\ repeat_after # None)
       => ((emitted # <<>>) <=>
              (tick.checked_at - tick.pre_last_sent_at[1] >= repeat_after[1]))
    /\ (tick.op = "do" /\ emitted # <<>>)
       => (in_error /\ last_sent_at = Some(now))

\* C2 witness: with R = one hour, a tick two hours after the last
\* announcement re-emits.
C2_Witness ==
    /\ TickInError
    /\ repeat_after = Some(6)
    /\ tick.checked_at - tick.pre_last_sent_at[1] = 12
    /\ emitted = <<FaultMessage>>
    /\ last_sent_at = Some(now)

\* C3: without a repeat interval, a tick that sees the flag true while in
\* error emits nothing and changes nothing, so one continuous error period
\* has exactly one announcement.
C3_NoRepeatWithoutInterval ==
    repeat_after = None
    => /\ TickInError => /\ emitted = <<>>
                         /\ in_error
                         /\ last_sent_at = tick.pre_last_sent_at
       /\ period_emits <= 1
       /\ in_error => period_emits = 1

\* C3 witness: without a repeat interval, a tick long after the announcement
\* and still in error emits nothing.
C3_Witness ==
    /\ TickInError
    /\ repeat_after = None
    /\ tick.checked_at - tick.pre_last_sent_at[1] >= 12
    /\ emitted = <<>>
    /\ period_emits = 1

\* C5: a tick during which a call raises catches the exception and leaves
\* in_error and last_sent_at as they were; the next tick that sees the flag
\* true and raises nothing announces the fault whose announcement failed.
C5_ExceptionKeepsState ==
    /\ (tick.op = "do" /\ tick.failed_at # "none")
       => /\ ~tick.propagated
          /\ emitted = <<>>
          /\ in_error = tick.pre_in_error
          /\ last_sent_at = tick.pre_last_sent_at
    /\ (tick.op = "do" /\ tick.failed_at = "none" /\ tick.flag /\ tick.after_failure)
       => (emitted # <<>> /\ in_error /\ last_sent_at = Some(now))

\* C5 witness: emitting raised on the previous tick, and this tick announces
\* the fault.
C5_Witness ==
    /\ tick.op = "do"
    /\ tick.failed_at = "none"
    /\ tick.flag
    /\ tick.after_failure
    /\ ~tick.pre_in_error
    /\ emitted = <<FaultMessage>>

\* C6: a tick that sees the flag false sets in_error to false whatever it
\* was, emits nothing and leaves last_sent_at as it was.
C6_FlagFalseClears ==
    (tick.op = "do" /\ tick.failed_at = "none" /\ ~tick.flag)
    => /\ ~in_error
       /\ emitted = <<>>
       /\ last_sent_at = tick.pre_last_sent_at

\* C6 witness: a tick sees the flag false after an announcement.
C6_Witness ==
    /\ tick.op = "do"
    /\ tick.failed_at = "none"
    /\ ~tick.flag
    /\ tick.pre_in_error
    /\ ~in_error
    /\ last_sent_at # None

\* The elapsed-time test of the last tick, had it been evaluated.
ElapsedAtTick ==
    /\ repeat_after # None
    /\ tick.pre_last_sent_at # None
    /\ tick.checked_at - tick.pre_last_sent_at[1] >= repeat_after[1]

\* C12: a tick changes last_sent_at only if it emits, that is if it sees the
\* flag true and either in_error was false or the repeat interval is
\* configured and has elapsed; a tick that emits nothing leaves last_sent_at
\* as it was.
C12_LastSentAtOnlyWhenEmitting ==
    tick.op = "do"
    => /\ last_sent_at # tick.pre_last_sent_at
            => /\ emitted # <<>>
               /\ last_sent_at = Some(now)
       /\ emitted # <<>>
            => /\ tick.flag
               /\ tick.failed_at = "none"
               /\ ~tick.pre_in_error \/ ElapsedAtTick
       /\ emitted = <<>> => last_sent_at = tick.pre_last_sent_at

\* C12 witness: a tick in error re-emits after the interval and moves
\* last_sent_at.
C12_Witness ==
    /\ tick.op = "do"
    /\ tick.pre_in_error
    /\ ElapsedAtTick
    /\ emitted # <<>>
    /\ last_sent_at # tick.pre_last_sent_at

\* C18: in_error implies that last_sent_at is set, so no tick evaluates the
\* elapsed-time test with last_sent_at unset.
C18_InErrorHasLastSentAt ==
    /\ in_error => last_sent_at # None
    /\ tick.pre_in_error => tick.pre_last_sent_at # None
    /\ tick.failed_at # "elapsed_test"

\* C18 witness: a tick in error with a repeat interval evaluates the test,
\* with last_sent_at set, and does not re-emit.
C18_Witness ==
    /\ TickInError
    /\ repeat_after # None
    /\ in_error
    /\ last_sent_at # None
    /\ emitted = <<>>
    /\ period_emits = 1

\* C19: after an announcement and a tick that saw the flag false, the next
\* tick that sees the flag true and raises nothing announces at once, also
\* when less than the repeat interval has passed and when there is none.
C19_NewPeriodAnnouncesAtOnce ==
    ( /\ tick.op = "do"
      /\ tick.failed_at = "none"
      /\ tick.flag
      /\ ~tick.pre_in_error
      /\ tick.pre_last_sent_at # None )
    => /\ emitted = <<FaultMessage>>
       /\ in_error
       /\ last_sent_at = Some(now)

\* C19 witness: with a repeat interval of one hour, a new error period is
\* announced ten minutes after the previous announcement.
C19_Witness ==
    /\ tick.op = "do"
    /\ tick.failed_at = "none"
    /\ tick.flag
    /\ ~tick.pre_in_error
    /\ tick.pre_last_sent_at # None
    /\ repeat_after = Some(6)
    /\ tick.checked_at - tick.pre_last_sent_at[1] = 1
    /\ emitted = <<FaultMessage>>

-----------------------------------------------------------------------------
(* Properties of the validators                                            *)

\* The duration an input writes: hours, minutes and tenths of a second,
\* negated as a whole under a minus sign.
Denoted ==
    SignFactor(v_origin.sign) *
    ( v_origin.parts[1] * 36000 + v_origin.parts[2] * 600
      + (IF Len(v_origin.parts) = 3 THEN v_origin.parts[3] ELSE 0) )

\* C14: for "[+-]HH:MM" and "[+-]HH:MM:SS[.f]" time_period_str returns
\* hours*3600 + minutes*60 + seconds, negated as a whole under a minus sign;
\* a string that does not split into two or three numeric parts is invalid.
C14_TimePeriodStr ==
    v_func = "time_period_str"
    => /\ v_origin.form \in {"hm", "hms"}
            => /\ v_result.ok
               /\ v_result.val.type = "timedelta"
               /\ v_result.val.num = Denoted
       /\ (v_input.type = "str" /\ v_origin.form \in {"malformed", "seconds"})
            => ~v_result.ok

\* C14 witness: "-1:30:00" yields minus ninety minutes.
C14_Witness ==
    /\ v_func = "time_period_str"
    /\ v_input.str = <<"-", "1", ":", "3", "0", ":", "0", "0">>
    /\ v_result.ok
    /\ v_result.val.num = -54000

\* The forms of input that write a duration.
WritesDuration == v_origin.form \in {"hm", "hms", "seconds", "timedelta", "dict"}

CoercesAs(expected) ==
    /\ v_result.ok
    /\ v_result.val = PyBool(expected = 1)
    /\ v_func = "boolean(boolean)" => v_result = v_prev

BooleanApplied == v_func \in {"boolean", "boolean(boolean)"}

\* C16 as stated: boolean is idempotent and case-insensitive on bools,
\* numbers and every spelling of the tokens, and every other input,
\* a token with whitespace around it included, signals an error.
C16_BooleanCoercion ==
    BooleanApplied
    => /\ v_origin.form \in {"bool", "number", "token"}
            => CoercesAs(v_origin.parts[1])
       /\ v_origin.form \in {"padded token", "other"}
            => (v_func = "boolean" /\ ~v_result.ok)

\* C16 amended: a token may also have whitespace around it and coerces as
\* the bare token does; every input that is none of these signals an error.
C16_BooleanCoercionPadded ==
    BooleanApplied
    => /\ v_origin.form \in {"bool", "number", "token", "padded token"}
            => CoercesAs(v_origin.parts[1])
       /\ v_origin.form = "other"
            => (v_func = "boolean" /\ ~v_result.ok)

\* C16 witness: boolean applied twice to "YES" is true both times.
C16_Witness ==
    /\ v_func = "boolean(boolean)"
    /\ v_input = PyStr(<<"Y", "E", "S">>)
    /\ v_prev = Returned(PyBool(TRUE))
    /\ v_result = v_prev

\* A structured address as written: one or two main digits, no middle part
\* or one of one or two digits, one to four sub digits, and nothing after.
StructuredForm ==
    /\ v_origin.form = "structured"
    /\ v_origin.parts[1] \in 1..2
    /\ v_origin.parts[2] \in 0..2
    /\ v_origin.parts[3] \in 1..4
    /\ v_origin.parts[4] = 0

\* A free-form address as written: digits only, worth 0 to KNX_GA_MAX_FREE.
FreeForm ==
    /\ v_origin.form = "free"
    /\ v_origin.parts[1] \in 0..KNX_GA_MAX_FREE
    /\ v_origin.parts[2] = 0

\* C17: ensure_group_address accepts a value if and only if it is a
\* free-form integer in [0, 65535] or of the structured form, returns an
\* accepted value unchanged as a string, and signals an error otherwise.
C17_GroupAddressAccepted ==
    v_func = "ensure_group_address"
    => /\ v_result.ok <=> (FreeForm \/ StructuredForm)
       /\ v_result.ok => v_result.val = PyStr(py_str(v_input))

=============================================================================
